---- MODULE Spec2Model ----
(***************************************************************************)
(* Poster / metadata fetch deduplication of OmniTrackr                     *)
(* (src/app/static/app.js, src/app/static/auth.js).                        *)
(*                                                                         *)
(* The browser runs the script on one thread.  A call of an async function *)
(* runs synchronously up to its first await; the continuation of an await  *)
(* on a settled promise is a microtask; network responses and timers are   *)
(* macrotasks, which run only when the microtask queue is empty.  Timers   *)
(* with the same delay fire in the order they were scheduled.              *)
(***************************************************************************)
EXTENDS Integers, Sequences, FiniteSets, TLC

\* ---------------------------------------------------------------- bounds
\* Number of fetch-function calls issued by the row-rendering code.
MaxCalls == 2
\* Number of input events on the search box and change events on the sort
\* selector.
MaxInputs == 2
\* Number of successful logins after the page has loaded.
MaxLogins == 1
\* Number of GET /notifications/count requests the interval may have pending.
MaxPolls == 1
\* Number of clicks on the Edit, Save and Cancel buttons of table rows.
MaxClicks == 3
\* Number of submissions of the account deactivation form.
MaxAttempts == 1

\* ------------------------------------------------------------- constants
HTTP_TOO_MANY_REQUESTS == 429
HTTP_SERVICE_UNAVAILABLE == 503
HTTP_SERVER_ERROR == 500
HTTP_OK == 200

Null == "null"
Undefined == "undefined"
NA == "N/A"

\* The user's library: the rows the list loaders render (entity id -> fields).
\* Movies 1 and 2 are the same title and year entered twice, and so are video
\* games 1 and 2.  The year fields are number inputs read with parseInt, with
\* no minimum: anime 1 and 2 differ in title and in year.
Movies == [i \in {1, 2} |-> [title |-> "Dune", year |-> 2021]]
TVShows == [i \in {1} |-> [title |-> "Dune", year |-> 2021]]
Anime ==
  [i \in {1, 2} |-> IF i = 1 THEN [title |-> "Dune-", year |-> 1]
                              ELSE [title |-> "Dune", year |-> -1]]
VideoGames == [i \in {1, 2} |-> [title |-> "Dune"]]

\* ------------------------------------------------------------ cache keys
movieCacheKey(title, year) == "movie-" \o title \o "-" \o ToString(year)
tvCacheKey(title, year) == "tv-" \o title \o "-" \o ToString(year)
animeCacheKey(title, year) == "anime-" \o title \o "-" \o ToString(year)
videoGameCacheKey(title) == "video-game-" \o title

Keys ==
  {movieCacheKey(Movies[i].title, Movies[i].year) : i \in DOMAIN Movies}
    \cup {tvCacheKey(TVShows[i].title, TVShows[i].year) : i \in DOMAIN TVShows}
    \cup {animeCacheKey(Anime[i].title, Anime[i].year) : i \in DOMAIN Anime}
    \cup {videoGameCacheKey(VideoGames[i].title) : i \in DOMAIN VideoGames}

\* ---------------------------------------------------- provider responses
\* The artifact the provider holds for a title: one URL per lookup target.
ArtifactUrl(key) == "https://img/" \o key \o ".jpg"
Urls == {ArtifactUrl(k) : k \in Keys}

\* What `await fetch(url)` followed by `await res.json()` can produce.
Threw == [threw |-> TRUE, ok |-> FALSE, status |-> 0]
Http(s) == [threw |-> FALSE, ok |-> FALSE, status |-> s]
OmdbBody(err, poster) ==
  [threw |-> FALSE, ok |-> TRUE, status |-> HTTP_OK, Error |-> err, Poster |-> poster]
RawgBody(err, results) ==
  [threw |-> FALSE, ok |-> TRUE, status |-> HTTP_OK, error |-> err, results |-> results]

OmdbResponses(key) ==
  {Threw, Http(HTTP_TOO_MANY_REQUESTS), Http(HTTP_SERVICE_UNAVAILABLE),
   Http(HTTP_SERVER_ERROR), OmdbBody(TRUE, Null), OmdbBody(FALSE, NA),
   OmdbBody(FALSE, ArtifactUrl(key))}
RawgResponses(key) ==
  {Threw, Http(HTTP_TOO_MANY_REQUESTS), Http(HTTP_SERVICE_UNAVAILABLE),
   Http(HTTP_SERVER_ERROR), RawgBody(TRUE, <<>>), RawgBody(FALSE, <<>>),
   RawgBody(FALSE, <<[background_image |-> Null]>>),
   RawgBody(FALSE, <<[background_image |-> ArtifactUrl(key)]>>)}

\* Responses of the backend to the persistence PUT.
PutResponses == {"ok", "unauthorized", "network_error"}

\* Mutant: the placeholder 'N/A' taken for a poster.
HasPoster_acceptsNA(data) == data.Poster # Null

\* `if (data && data.Poster && data.Poster !== 'N/A')`
HasPoster(data) == data.Poster # Null /\ data.Poster # NA

\* `game.background_image || null` of the first result, null without results.
CoverArtUrl(data) ==
  IF Len(data.results) > 0 THEN data.results[1].background_image ELSE Null

\* The branch of fetchMoviePoster / fetchTVPoster / fetchAnimePoster a provider
\* response selects: "catch", "return" (every early return and the fall out of
\* the try block) or "save" (the poster is saved and displayed).
PosterBranch(res) ==
  IF res.threw THEN "catch"
  ELSE IF ~res.ok THEN
         IF res.status = HTTP_TOO_MANY_REQUESTS THEN "return"
         ELSE IF res.status = HTTP_SERVICE_UNAVAILABLE THEN "return"
         ELSE "return"
  ELSE IF res.Error THEN "return"
  ELSE IF HasPoster(res) THEN "save"
  ELSE "return"

\* The branch of the fetchPromise body of fetchVideoGameMetadata.
MetadataBranch(res) ==
  IF res.threw THEN "catch"
  ELSE IF ~res.ok THEN
         IF res.status = HTTP_TOO_MANY_REQUESTS THEN "return"
         ELSE IF res.status = HTTP_SERVICE_UNAVAILABLE THEN "return"
         ELSE "return"
  ELSE IF res.error THEN "return"
  ELSE IF CoverArtUrl(res) # Null THEN "save"
  ELSE "return"

\* What the provider answered, in the terms of the specification's FetchResult
\* (recorded with the call; the code never reads it).
OmdbOutcome(res) ==
  IF res.threw THEN "transport_error"
  ELSE IF ~res.ok THEN "failed"
  ELSE IF res.Error \/ res.Poster \in {Null, NA} THEN "not_found"
  ELSE "found"

RawgOutcome(res) ==
  IF res.threw THEN "transport_error"
  ELSE IF ~res.ok THEN "failed"
  ELSE IF res.error \/ res.results = << >> THEN "not_found"
  ELSE IF res.results[1].background_image = Null THEN "not_found"
  ELSE "found"

\* ------------------------------------------------------------------ state
VARIABLES
  posterFetchInProgress,  \* const posterFetchInProgress = new Set()
  posterFetchQueue,       \* const posterFetchQueue = new Map(): key -> promise
  calls,                  \* every call of a fetch function made so far
  micro,                  \* microtask queue: continuations ready to run
  timers,                 \* pending setTimeout(..., 1000) callbacks, oldest first
  token,                  \* localStorage holds a token (auth.js getToken)
  poster,                 \* what the poster cell of each row shows
  evictions,              \* per key, how many windows the timer has closed
  \* the page: movie list, search and sort controls, notification poll
  loaded,                     \* DOMContentLoaded has been dispatched
  landingPage,                \* landing page shown, main container hidden
  isLoadingMovies,            \* let isLoadingMovies = false
  movieSearch,                \* value of the #movieSearch input
  movieSort,                  \* value of the #movieSort select
  movieSearchTimeout,         \* the debounce timer is pending
  movieRequest,               \* GET /movies/ awaited by loadMovies
  movieTable,                 \* search and sort the rendered rows answer
  notificationCountInterval,  \* let notificationCountInterval = null
  intervals,                  \* the setInterval timers that are active
  intervalsCreated,           \* setInterval calls made so far
  countRequests,              \* GET /notifications/count requests pending
  lastCall,                   \* the latest authenticatedFetch call
  inputs,                     \* input and change events so far
  logins,                     \* successful logins so far
  loadFailed,                 \* a list load ended without rendering
  \* inline editing of table rows
  editingRowId,               \* let editingRowId = null
  editing,                    \* rows that show Save and Cancel buttons
  buttonsOff,                 \* rows whose buttons are disabled
  editPuts,                   \* PUTs awaited by save...Edit handlers
  isLoadingVideoGames,        \* let isLoadingVideoGames = false
  videoGameTable,             \* the video-game rows have been rendered
  clicks,                     \* clicks on Edit, Save and Cancel so far
  currentTab,                 \* let currentTab = 'movies'
  \* the account form
  deactivation,               \* position of deactivateAccount
  attempts                    \* submissions of the deactivation form so far

posterVars ==
  <<posterFetchInProgress, posterFetchQueue, calls, micro, timers, poster,
    evictions>>

uiVars ==
  <<loaded, landingPage, isLoadingMovies, movieSearch, movieSort,
    movieSearchTimeout, movieRequest, movieTable, notificationCountInterval,
    intervals, intervalsCreated, countRequests, lastCall, inputs, logins,
    loadFailed>>

editVars ==
  <<editingRowId, editing, buttonsOff, editPuts, isLoadingVideoGames,
    videoGameTable, clicks, currentTab>>

accountVars == <<deactivation, attempts>>

vars == <<posterVars, token, uiVars, editVars, accountVars>>

CallIdx == 1..Len(calls)

PosterFns == {"fetchMoviePoster", "fetchTVPoster", "fetchAnimePoster"}
Fns == PosterFns \cup {"fetchVideoGameMetadata"}

Rows ==
  {<<"fetchMoviePoster", i>> : i \in DOMAIN Movies}
    \cup {<<"fetchTVPoster", i>> : i \in DOMAIN TVShows}
    \cup {<<"fetchAnimePoster", i>> : i \in DOMAIN Anime}
    \cup {<<"fetchVideoGameMetadata", i>> : i \in DOMAIN VideoGames}

\* A promise is named by the call that created it.
NoPromise == 0

\* The promise stored for a key has settled.
StoredResult(key) ==
  /\ key \in DOMAIN posterFetchQueue
  /\ calls[posterFetchQueue[key]].prom # "pending"

TimerPending(key) == \E n \in 1..Len(timers) : timers[n] = key

\* Where a key stands: no entry, lookup under way, or lookup settled with the
\* entry still in the table until the timer fires.
Phase(key) ==
  IF key \notin posterFetchInProgress THEN "Absent"
  ELSE IF TimerPending(key) \/ StoredResult(key) THEN "Resolved"
  ELSE "InFlight"

NewCall(fn, id, key) ==
  [fn |-> fn, id |-> id, key |-> key,
   phase |-> Phase(key),         \* where the key stood when the call was made
   win |-> evictions[key] + 1,   \* the coalescing window the call falls in
   role |-> "skipped",           \* originator | waiter | skipped | duplicate
   pc |-> "done",                \* position of the function body
   iife |-> "none",              \* position of the fetchPromise body
   awaits |-> NoPromise,         \* promise the function body awaits
   prom |-> "none",              \* state of the promise this call created
   pval |-> Null,                \* its value once fulfilled
   cause |-> "none",             \* what the provider answered
   url |-> Null,                 \* artifact found by this call's lookup
   got |-> Undefined,            \* value handed over by the shared promise
   fetched |-> 0,                \* provider calls started
   saved |-> 0,                  \* save...() invocations
   puts |-> 0,                   \* PUT requests sent
   shown |-> 0,                  \* display...Poster() calls
   settled |-> "pending"]        \* the promise returned to the caller

\* Mutant: the in-progress mark is never set.
MarkInProgress_skipped(set, key) == set

\* posterFetchInProgress.add(cacheKey)
MarkInProgress(set, key) == set \cup {key}

\* Mutant: the result is not stored for later callers.
QueueSet_dropped(queue, key, p) == queue

\* posterFetchQueue.set(cacheKey, promise)
QueueSet(queue, key, p) ==
  [k \in DOMAIN queue \cup {key} |-> IF k = key THEN p ELSE queue[k]]

\* Mutant: the timer leaves the stored promise behind.
QueueDelete_keeps(queue, key) == queue

\* posterFetchQueue.delete(cacheKey)
QueueDelete(queue, key) == [k \in DOMAIN queue \ {key} |-> queue[k]]

\* Mutant: the timer forgets the in-progress mark.
InProgressDelete_forgets(set, key) == set

\* posterFetchInProgress.delete(cacheKey)
InProgressDelete(set, key) == set \ {key}

\* Mutant: the catch block rethrows.
PosterCatch_rethrows(threw) == IF threw THEN "rejected" ELSE "fulfilled"

\* catch (err) { console.error(...); posterFetchQueue.set(cacheKey, ...) }:
\* the error is swallowed and the async function returns undefined.
PosterCatch(threw) == "fulfilled"

\* catch (err) { console.error(...); return null; } in the fetchPromise body.
MetadataCatch(threw) == "fulfilled"

\* authenticatedFetch rejects without a token, on a 401 and on a network error.
authenticatedFetchRejects(tok, r) ==
  ~tok \/ r = "unauthorized" \/ r = "network_error"

\* Mutant: the save function lets the error of authenticatedFetch through.
SaveRejects_propagates(fetchRejected) == fetchRejected

\* save...(): try { await authenticatedFetch(PUT) } catch (err) { console.error }
SaveRejects(fetchRejected) == FALSE

\* clearAuth() on a 401 response
TokenAfter(tok, r) == IF r = "unauthorized" THEN FALSE ELSE tok

\* Reactions of the promise of call p, in the order the awaits registered.
Waiters(cs, p) ==
  LET idx == [j \in 1..Len(cs) |-> j]
      waiting(j) == cs[j].awaits = p /\ cs[j].pc = "awaitPromise"
  IN  [j \in 1..Len(SelectSeq(idx, waiting)) |->
         [c |-> SelectSeq(idx, waiting)[j], t |-> "outer"]]

\* let notificationCountInterval = null
NoInterval == 0

\* let editingRowId = null
NoRow == 0

\* The page once auth.js and app.js have run, the last statement being the
\* top-level loadMovies() of app.js: with a stored token GET /movies/ is
\* pending, without one authenticatedFetch has shown the landing page and
\* thrown.
PageStart(tok) ==
  /\ loaded = FALSE
  /\ landingPage = ~tok
  /\ isLoadingMovies = tok
  /\ movieSearch = ""
  /\ movieSort = ""
  /\ movieSearchTimeout = FALSE
  /\ movieRequest = IF tok THEN <<[search |-> "", sort |-> "", at |-> "fetch"]>>
                    ELSE << >>
  /\ movieTable = << >>
  /\ notificationCountInterval = NoInterval
  /\ intervals = {}
  /\ intervalsCreated = 0
  /\ countRequests = 0
  /\ lastCall = [tok |-> tok,
                 result |-> IF tok THEN "sent" ELSE "Not authenticated",
                 n |-> 1]
  /\ inputs = 0
  /\ logins = 0
  /\ loadFailed = ~tok
  /\ editingRowId = NoRow
  /\ editing = {}
  /\ buttonsOff = {}
  /\ editPuts = << >>
  /\ isLoadingVideoGames = FALSE
  /\ videoGameTable = FALSE
  /\ clicks = 0
  /\ currentTab = "movies"
  /\ deactivation = "none"
  /\ attempts = 0

PosterInit ==
  /\ posterFetchInProgress = {}
  /\ posterFetchQueue = [k \in {} |-> NoPromise]
  /\ calls = << >>
  /\ micro = << >>
  /\ timers = << >>
  /\ poster = [r \in Rows |-> Null]
  /\ evictions = [k \in Keys |-> 0]

Init ==
  /\ PosterInit
  /\ token = TRUE
  /\ PageStart(TRUE)

\* display...Poster(id, posterUrl, title): `if (cell && posterUrl)`
Display(p, fn, id, posterUrl) ==
  IF posterUrl # Null THEN [p EXCEPT ![<<fn, id>>] = posterUrl] ELSE p

\* ------------------------------------------------- entry of a fetch call
\* The code of fetchMoviePoster / fetchTVPoster / fetchAnimePoster up to its
\* first await (the three bodies differ only in the key prefix and the URL).
\* Mutant: a call that finds the mark but no promise goes on to its own lookup.
FetchPoster_ignoresMark(fn, id, key) ==
  /\ Len(calls) < MaxCalls
  /\ LET i == Len(calls) + 1
         c == NewCall(fn, id, key)
     IN  IF key \in DOMAIN posterFetchQueue /\ key \in posterFetchInProgress
         THEN LET p == posterFetchQueue[key] IN
              /\ calls' = Append(calls, [c EXCEPT !.role = "waiter",
                                                   !.pc = "awaitPromise",
                                                   !.awaits = p])
              /\ micro' = IF calls[p].prom = "pending" THEN micro
                          ELSE Append(micro, [c |-> i, t |-> "outer"])
              /\ UNCHANGED posterFetchInProgress
         ELSE /\ posterFetchInProgress' = MarkInProgress(posterFetchInProgress, key)
              /\ calls' = Append(calls, [c EXCEPT !.role = "originator",
                                                   !.pc = "awaitFetch",
                                                   !.fetched = 1])
              /\ UNCHANGED micro
  /\ UNCHANGED <<posterFetchQueue, timers, token, poster, evictions, uiVars, editVars, accountVars>>

FetchPoster(fn, id, key) ==
  /\ Len(calls) < MaxCalls
  /\ LET i == Len(calls) + 1
         c == NewCall(fn, id, key)
     IN  IF key \in posterFetchInProgress
         THEN IF key \in DOMAIN posterFetchQueue
              THEN \* const posterUrl = await existingPromise
                   LET p == posterFetchQueue[key] IN
                   /\ calls' = Append(calls, [c EXCEPT !.role = "waiter",
                                                        !.pc = "awaitPromise",
                                                        !.awaits = p])
                   /\ micro' = IF calls[p].prom = "pending" THEN micro
                               ELSE Append(micro, [c |-> i, t |-> "outer"])
                   /\ UNCHANGED posterFetchInProgress
              ELSE \* no promise stored: return
                   /\ calls' = Append(calls, [c EXCEPT !.settled = "fulfilled"])
                   /\ UNCHANGED <<micro, posterFetchInProgress>>
         ELSE \* mark as in progress, then `await fetch(proxyUrl)`
              /\ posterFetchInProgress' = MarkInProgress(posterFetchInProgress, key)
              /\ calls' = Append(calls, [c EXCEPT !.role = "originator",
                                                   !.pc = "awaitFetch",
                                                   !.fetched = 1])
              /\ UNCHANGED micro
  /\ UNCHANGED <<posterFetchQueue, timers, token, poster, evictions, uiVars, editVars, accountVars>>

fetchMoviePoster(id) ==
  FetchPoster("fetchMoviePoster", id,
              movieCacheKey(Movies[id].title, Movies[id].year))

fetchTVPoster(id) ==
  FetchPoster("fetchTVPoster", id,
              tvCacheKey(TVShows[id].title, TVShows[id].year))

fetchAnimePoster(id) ==
  FetchPoster("fetchAnimePoster", id,
              animeCacheKey(Anime[id].title, Anime[id].year))

\* fetchVideoGameMetadata up to its first await.  The fetchPromise body runs
\* synchronously up to `await fetch(proxyUrl)` before the second lookup of
\* posterFetchQueue is made.
fetchVideoGameMetadata(id) ==
  /\ Len(calls) < MaxCalls
  /\ LET key == videoGameCacheKey(VideoGames[id].title)
         i == Len(calls) + 1
         c == NewCall("fetchVideoGameMetadata", id, key)
     IN  IF key \in posterFetchInProgress
         THEN IF key \in DOMAIN posterFetchQueue
              THEN LET p == posterFetchQueue[key] IN
                   /\ calls' = Append(calls, [c EXCEPT !.role = "waiter",
                                                        !.pc = "awaitPromise",
                                                        !.awaits = p])
                   /\ micro' = IF calls[p].prom = "pending" THEN micro
                               ELSE Append(micro, [c |-> i, t |-> "outer"])
                   /\ UNCHANGED <<posterFetchInProgress, posterFetchQueue>>
              ELSE /\ calls' = Append(calls, [c EXCEPT !.settled = "fulfilled"])
                   /\ UNCHANGED <<micro, posterFetchInProgress, posterFetchQueue>>
         ELSE LET started == [c EXCEPT !.iife = "awaitFetch", !.prom = "pending",
                                       !.fetched = 1, !.pc = "awaitPromise"]
              IN  IF key \in DOMAIN posterFetchQueue
                  THEN \* "Another request beat us to it, use their promise"
                       LET p == posterFetchQueue[key] IN
                       /\ calls' = Append(calls, [started EXCEPT !.role = "duplicate",
                                                                  !.awaits = p])
                       /\ micro' = IF calls[p].prom = "pending" THEN micro
                                   ELSE Append(micro, [c |-> i, t |-> "outer"])
                       /\ UNCHANGED <<posterFetchInProgress, posterFetchQueue>>
                  ELSE /\ posterFetchQueue' = QueueSet(posterFetchQueue, key, i)
                       /\ posterFetchInProgress' =
                            MarkInProgress(posterFetchInProgress, key)
                       /\ calls' = Append(calls, [started EXCEPT !.role = "originator",
                                                                  !.awaits = i])
                       /\ UNCHANGED micro
  /\ UNCHANGED <<timers, token, poster, evictions, uiVars, editVars, accountVars>>

\* ------------------------------------------- poster originator, resumed
\* Mutant: the finally block schedules no timer.
ScheduleEviction_dropped(ts, key) == ts

\* finally { setTimeout(() => {...}, 1000) }: the callback is scheduled ...
ScheduleEviction(ts, key) == Append(ts, key)

\* Mutant: the finally block deletes the mark at once, without the timer.
InProgressAtFinally_deletes(set, key) == set \ {key}

\* ... and the finally block itself removes nothing from the set.
InProgressAtFinally(set, key) == set

\* The originator after `await save...PosterUrl(id, data.Poster)`: display the
\* poster, store Promise.resolve(data.Poster), return it; finally: the timer.
\* Were the save to throw, the catch block would store Promise.resolve(null).
PosterAfterSave(i, mq, saveThrew) ==
  LET c == calls[i] IN
  /\ IF saveThrew
     THEN /\ calls' = [calls EXCEPT ![i] = [c EXCEPT !.pc = "done",
                                                      !.prom = "fulfilled",
                                                      !.pval = Null,
                                                      !.settled = PosterCatch(TRUE)]]
          /\ UNCHANGED poster
     ELSE /\ calls' = [calls EXCEPT ![i] = [c EXCEPT !.pc = "done",
                                                      !.prom = "fulfilled",
                                                      !.pval = c.url,
                                                      !.shown = @ + 1,
                                                      !.settled = "fulfilled"]]
          /\ poster' = Display(poster, c.fn, c.id, c.url)
  /\ posterFetchQueue' = QueueSet(posterFetchQueue, c.key, i)
  /\ timers' = ScheduleEviction(timers, c.key)
  /\ posterFetchInProgress' = InProgressAtFinally(posterFetchInProgress, c.key)
  /\ micro' = mq

\* The provider answers a fetchMoviePoster / fetchTVPoster / fetchAnimePoster
\* originator: the code from `await fetch(...)` to the next await or the end.
OmdbResponds(i, res) ==
  /\ micro = << >>
  /\ i \in 1..Len(calls)
  /\ calls[i].fn \in PosterFns
  /\ calls[i].pc = "awaitFetch"
  /\ LET c == calls[i]
         cause == OmdbOutcome(res)
         branch == PosterBranch(res)
     IN  IF branch = "save"
         THEN \* await save...PosterUrl(id, data.Poster): authenticatedFetch
              \* sends the PUT only when a token is stored
              /\ calls' = [calls EXCEPT ![i] =
                   [c EXCEPT !.cause = cause, !.url = res.Poster,
                             !.saved = @ + 1,
                             !.puts = IF token THEN @ + 1 ELSE @,
                             !.pc = IF token THEN "awaitPut" ELSE "afterSave"]]
              /\ micro' = IF token THEN micro
                          ELSE Append(micro, [c |-> i, t |-> "outer"])
              /\ UNCHANGED <<posterFetchQueue, timers, posterFetchInProgress>>
         ELSE IF branch = "catch"
         THEN \* catch: posterFetchQueue.set(cacheKey, Promise.resolve(null))
              /\ calls' = [calls EXCEPT ![i] =
                   [c EXCEPT !.cause = cause, !.pc = "done",
                             !.prom = "fulfilled", !.pval = Null,
                             !.settled = PosterCatch(TRUE)]]
              /\ posterFetchQueue' = QueueSet(posterFetchQueue, c.key, i)
              /\ timers' = ScheduleEviction(timers, c.key)
              /\ posterFetchInProgress' =
                   InProgressAtFinally(posterFetchInProgress, c.key)
              /\ UNCHANGED micro
         ELSE \* return (or fall out of the try block); finally: the timer
              /\ calls' = [calls EXCEPT ![i] =
                   [c EXCEPT !.cause = cause, !.pc = "done",
                             !.settled = "fulfilled"]]
              /\ timers' = ScheduleEviction(timers, c.key)
              /\ posterFetchInProgress' =
                   InProgressAtFinally(posterFetchInProgress, c.key)
              /\ UNCHANGED <<posterFetchQueue, micro>>
  /\ UNCHANGED <<token, poster, evictions, uiVars, editVars, accountVars>>

\* The backend answers the PUT of a poster originator; save...PosterUrl
\* returns and the originator goes on in the same turn.
PosterPutResponds(i, r) ==
  /\ micro = << >>
  /\ i \in 1..Len(calls)
  /\ calls[i].fn \in PosterFns
  /\ calls[i].pc = "awaitPut"
  /\ token' = TokenAfter(token, r)
  /\ PosterAfterSave(i, micro, SaveRejects(authenticatedFetchRejects(token, r)))
  /\ UNCHANGED <<evictions, uiVars, editVars, accountVars>>

\* Mutant: the waiter saves the poster too, as the video-game waiter does.
PosterWaiterResumes_saves(i, mq) ==
  LET c == calls[i]
      posterUrl == calls[c.awaits].pval
  IN  /\ calls' = [calls EXCEPT ![i] =
           [c EXCEPT !.pc = "done", !.got = posterUrl,
                     !.shown = IF posterUrl # Null THEN @ + 1 ELSE @,
                     !.saved = IF posterUrl # Null THEN @ + 1 ELSE @,
                     !.settled = "fulfilled"]]
      /\ poster' = Display(poster, c.fn, c.id, posterUrl)
      /\ micro' = mq
      /\ UNCHANGED <<posterFetchQueue, timers, posterFetchInProgress>>

\* A waiter of a poster key resumes after `await existingPromise`.
PosterWaiterResumes(i, mq) ==
  LET c == calls[i]
      posterUrl == calls[c.awaits].pval
  IN  /\ calls' = [calls EXCEPT ![i] =
           [c EXCEPT !.pc = "done", !.got = posterUrl,
                     !.shown = IF posterUrl # Null THEN @ + 1 ELSE @,
                     !.settled = "fulfilled"]]
      /\ poster' = Display(poster, c.fn, c.id, posterUrl)
      /\ micro' = mq
      /\ UNCHANGED <<posterFetchQueue, timers, posterFetchInProgress>>

\* --------------------------------------------- fetchVideoGameMetadata
\* The fetchPromise body settles: its promise takes its state and value, and
\* the awaits registered on it are queued in registration order.
SettleFetchPromise(i, state, value, mq, extra) ==
  LET c == calls[i]
      cs == [calls EXCEPT ![i] = [extra EXCEPT !.iife = "settled",
                                               !.prom = state,
                                               !.pval = value]]
  IN  /\ calls' = cs
      /\ micro' = mq \o Waiters(cs, i)
      /\ UNCHANGED <<posterFetchQueue, timers, posterFetchInProgress>>

\* The fetchPromise body after `await saveVideoGameMetadata(...)`: display the
\* cover art, update the row, return the result object.
MetadataAfterSave(i, mq, saveThrew) ==
  LET c == calls[i] IN
  IF saveThrew
  THEN /\ SettleFetchPromise(i, MetadataCatch(TRUE), Null, mq, c)
       /\ UNCHANGED poster
  ELSE /\ SettleFetchPromise(i, "fulfilled", c.url, mq,
                             [c EXCEPT !.shown = @ + 1])
       /\ poster' = Display(poster, c.fn, c.id, c.url)

\* Mutant: on cover art the fetchPromise is fulfilled as soon as the PUT has
\* been sent, not after saveVideoGameMetadata has returned.
RawgResponds_settlesBeforeSave(i, res) ==
  /\ micro = << >>
  /\ i \in 1..Len(calls)
  /\ calls[i].iife = "awaitFetch"
  /\ LET c == calls[i]
         cause == RawgOutcome(res)
         branch == MetadataBranch(res)
     IN  IF branch = "save" /\ token
         THEN LET cs == [calls EXCEPT ![i] =
                     [c EXCEPT !.cause = cause, !.url = CoverArtUrl(res),
                               !.saved = @ + 1, !.puts = @ + 1,
                               !.prom = "fulfilled", !.pval = CoverArtUrl(res),
                               !.iife = "awaitPut"]]
              IN  /\ calls' = cs
                  /\ micro' = micro \o Waiters(cs, i)
                  /\ UNCHANGED <<posterFetchQueue, timers, posterFetchInProgress>>
         ELSE IF branch = "save"
         THEN /\ calls' = [calls EXCEPT ![i] =
                   [c EXCEPT !.cause = cause, !.url = CoverArtUrl(res),
                             !.saved = @ + 1, !.iife = "afterSave"]]
              /\ micro' = Append(micro, [c |-> i, t |-> "iife"])
              /\ UNCHANGED <<posterFetchQueue, timers, posterFetchInProgress>>
         ELSE IF branch = "catch"
         THEN SettleFetchPromise(i, MetadataCatch(TRUE), Null, micro,
                                 [c EXCEPT !.cause = cause])
         ELSE SettleFetchPromise(i, "fulfilled", Null, micro,
                                 [c EXCEPT !.cause = cause])
  /\ UNCHANGED <<token, poster, evictions, uiVars, editVars, accountVars>>

\* The provider answers the lookup started by a fetchPromise body.
RawgResponds(i, res) ==
  /\ micro = << >>
  /\ i \in 1..Len(calls)
  /\ calls[i].iife = "awaitFetch"
  /\ LET c == calls[i]
         cause == RawgOutcome(res)
         branch == MetadataBranch(res)
     IN  IF branch = "save"
         THEN /\ calls' = [calls EXCEPT ![i] =
                   [c EXCEPT !.cause = cause, !.url = CoverArtUrl(res),
                             !.saved = @ + 1,
                             !.puts = IF token THEN @ + 1 ELSE @,
                             !.iife = IF token THEN "awaitPut" ELSE "afterSave"]]
              /\ micro' = IF token THEN micro
                          ELSE Append(micro, [c |-> i, t |-> "iife"])
              /\ UNCHANGED <<posterFetchQueue, timers, posterFetchInProgress>>
         ELSE IF branch = "catch"
         THEN SettleFetchPromise(i, MetadataCatch(TRUE), Null, micro,
                                 [c EXCEPT !.cause = cause])
         ELSE SettleFetchPromise(i, "fulfilled", Null, micro,
                                 [c EXCEPT !.cause = cause])
  /\ UNCHANGED <<token, poster, evictions, uiVars, editVars, accountVars>>

\* The backend answers the PUT sent from a fetchPromise body.
MetadataPutResponds(i, r) ==
  /\ micro = << >>
  /\ i \in 1..Len(calls)
  /\ calls[i].iife = "awaitPut"
  /\ token' = TokenAfter(token, r)
  /\ MetadataAfterSave(i, micro, SaveRejects(authenticatedFetchRejects(token, r)))
  /\ UNCHANGED <<evictions, uiVars, editVars, accountVars>>

\* The originator after `await fetchPromise`: return result; finally: the timer.
\* A rejected fetchPromise would pass through (there is no catch here).
MetadataOriginatorResumes(i, mq) ==
  LET c == calls[i] IN
  /\ calls' = [calls EXCEPT ![i] =
       [c EXCEPT !.pc = "done", !.settled = calls[c.awaits].prom]]
  /\ timers' = ScheduleEviction(timers, c.key)
  /\ posterFetchInProgress' = InProgressAtFinally(posterFetchInProgress, c.key)
  /\ micro' = mq
  /\ UNCHANGED <<posterFetchQueue, poster>>

\* Mutant: the waiter displays the cover art without saving it, as the poster
\* waiter does.
MetadataWaiterResumes_noSave(i, mq) ==
  LET c == calls[i]
      p == calls[c.awaits]
      result == IF p.prom = "fulfilled" THEN p.pval ELSE Null
  IN  /\ calls' = [calls EXCEPT ![i] =
           [c EXCEPT !.got = IF p.prom = "fulfilled" THEN result ELSE Undefined,
                     !.shown = IF result # Null THEN @ + 1 ELSE @,
                     !.pc = "done", !.settled = "fulfilled"]]
      /\ poster' = Display(poster, c.fn, c.id, result)
      /\ micro' = mq
      /\ UNCHANGED <<posterFetchQueue, timers, posterFetchInProgress>>

\* A caller that found a promise in posterFetchQueue resumes after
\* `await existingPromise`: with cover art it displays it and saves it for
\* its own entity id; errors of the awaited promise are ignored.
MetadataWaiterResumes(i, mq) ==
  LET c == calls[i]
      p == calls[c.awaits]
      result == IF p.prom = "fulfilled" THEN p.pval ELSE Null
  IN  IF p.prom = "fulfilled" /\ result # Null
      THEN /\ calls' = [calls EXCEPT ![i] =
                [c EXCEPT !.got = result, !.shown = @ + 1, !.saved = @ + 1,
                          !.puts = IF token THEN @ + 1 ELSE @,
                          !.pc = IF token THEN "awaitPut" ELSE "afterSave"]]
           /\ poster' = Display(poster, c.fn, c.id, result)
           /\ micro' = IF token THEN mq
                       ELSE Append(mq, [c |-> i, t |-> "outer"])
           /\ UNCHANGED <<posterFetchQueue, timers, posterFetchInProgress>>
      ELSE /\ calls' = [calls EXCEPT ![i] =
                [c EXCEPT !.got = IF p.prom = "fulfilled" THEN result ELSE Undefined,
                          !.pc = "done", !.settled = "fulfilled"]]
           /\ micro' = mq
           /\ UNCHANGED <<posterFetchQueue, timers, posterFetchInProgress, poster>>

\* ... and after its own `await saveVideoGameMetadata(...)`:
\* updateVideoGameRowMetadata, then return.
MetadataWaiterAfterSave(i, mq, saveThrew) ==
  /\ calls' = [calls EXCEPT ![i] =
       [calls[i] EXCEPT !.pc = "done", !.settled = "fulfilled"]]
  /\ micro' = mq
  /\ UNCHANGED <<posterFetchQueue, timers, posterFetchInProgress, poster>>

\* The backend answers the PUT sent by a waiter.
WaiterPutResponds(i, r) ==
  /\ micro = << >>
  /\ i \in 1..Len(calls)
  /\ calls[i].fn = "fetchVideoGameMetadata"
  /\ calls[i].pc = "awaitPut"
  /\ token' = TokenAfter(token, r)
  /\ MetadataWaiterAfterSave(i, micro,
                             SaveRejects(authenticatedFetchRejects(token, r)))
  /\ UNCHANGED <<evictions, uiVars, editVars, accountVars>>

\* ------------------------------------------------------------ scheduler
\* The oldest microtask runs.
RunMicrotask ==
  /\ micro # << >>
  /\ LET h == Head(micro)
         mq == Tail(micro)
         c == calls[h.c]
         noToken == SaveRejects(authenticatedFetchRejects(FALSE, "ok"))
     IN  CASE h.t = "iife" -> MetadataAfterSave(h.c, mq, noToken)
           [] h.t = "outer" /\ c.fn \in PosterFns /\ c.pc = "afterSave" ->
                PosterAfterSave(h.c, mq, noToken)
           [] h.t = "outer" /\ c.fn \in PosterFns /\ c.pc = "awaitPromise" ->
                PosterWaiterResumes(h.c, mq)
           [] h.t = "outer" /\ c.fn \notin PosterFns /\ c.pc = "afterSave" ->
                MetadataWaiterAfterSave(h.c, mq, noToken)
           [] h.t = "outer" /\ c.fn \notin PosterFns /\ c.pc = "awaitPromise"
                /\ c.role = "originator" ->
                MetadataOriginatorResumes(h.c, mq)
           [] h.t = "outer" /\ c.fn \notin PosterFns /\ c.pc = "awaitPromise"
                /\ c.role # "originator" ->
                MetadataWaiterResumes(h.c, mq)
  /\ UNCHANGED <<token, evictions, uiVars, editVars, accountVars>>

\* The oldest eviction timer fires:
\* posterFetchInProgress.delete(cacheKey); posterFetchQueue.delete(cacheKey).
EvictionTimerFires ==
  /\ micro = << >>
  /\ timers # << >>
  /\ LET key == Head(timers) IN
     /\ posterFetchInProgress' = InProgressDelete(posterFetchInProgress, key)
     /\ posterFetchQueue' = QueueDelete(posterFetchQueue, key)
     /\ evictions' = [evictions EXCEPT ![key] =
          IF key \in posterFetchInProgress \/ key \in DOMAIN posterFetchQueue
          THEN @ + 1 ELSE @]
  /\ timers' = Tail(timers)
  /\ UNCHANGED <<calls, micro, token, poster, uiVars, editVars, accountVars>>

\* login(): saveAuthData(data.access_token, data.user) after a 401 logged the
\* user out.
Login ==
  /\ micro = << >>
  /\ ~token
  /\ token' = TRUE
  /\ UNCHANGED <<posterVars, uiVars, editVars, accountVars>>

Next ==
  \/ \E id \in DOMAIN Movies : fetchMoviePoster(id)
  \/ \E id \in DOMAIN TVShows : fetchTVPoster(id)
  \/ \E id \in DOMAIN Anime : fetchAnimePoster(id)
  \/ \E id \in DOMAIN VideoGames : fetchVideoGameMetadata(id)
  \/ \E i \in CallIdx : \E res \in OmdbResponses(calls[i].key) :
       OmdbResponds(i, res)
  \/ \E i \in CallIdx, r \in PutResponses : PosterPutResponds(i, r)
  \/ \E i \in CallIdx : \E res \in RawgResponses(calls[i].key) :
       RawgResponds(i, res)
  \/ \E i \in CallIdx, r \in PutResponses : MetadataPutResponds(i, r)
  \/ \E i \in CallIdx, r \in PutResponses : WaiterPutResponds(i, r)
  \/ RunMicrotask
  \/ EvictionTimerFires
  \/ Login

Spec == Init /\ [][Next]_vars

\* The provider answers a pending lookup.
ProviderResponds ==
  \/ \E i \in CallIdx : \E res \in OmdbResponses(calls[i].key) :
       OmdbResponds(i, res)
  \/ \E i \in CallIdx : \E res \in RawgResponses(calls[i].key) :
       RawgResponds(i, res)

\* The backend answers a pending PUT.
BackendResponds ==
  \/ \E i \in CallIdx, r \in PutResponses : PosterPutResponds(i, r)
  \/ \E i \in CallIdx, r \in PutResponses : MetadataPutResponds(i, r)
  \/ \E i \in CallIdx, r \in PutResponses : WaiterPutResponds(i, r)

\* The event loop runs ready microtasks and due timers, and every request
\* sent is answered (or fails) in the end.  Nothing obliges the page to call
\* a fetch function or the user to log in.
Fairness ==
  /\ WF_vars(RunMicrotask)
  /\ WF_vars(EvictionTimerFires)
  /\ WF_vars(ProviderResponds)
  /\ WF_vars(BackendResponds)

\* The table is keyed by cacheKey and no branch of the fetch functions reads
\* the row id, so for the fate of a key it is enough to let the loaders render
\* one row per key, any number of times.
LiveNext ==
  \/ fetchMoviePoster(1)
  \/ fetchTVPoster(1)
  \/ fetchAnimePoster(1)
  \/ fetchVideoGameMetadata(1)
  \/ ProviderResponds
  \/ BackendResponds
  \/ RunMicrotask
  \/ EvictionTimerFires
  \/ Login

LiveSpec == Init /\ [][LiveNext]_vars /\ Fairness

\* ================================================================ the page
\* loadMovies invocations that can be under way at once in the model: the
\* initial one, one per input event and one per login.
MaxLoads == 1 + MaxInputs + MaxLogins
SearchTexts == {"", "d", "du"}
SortValues == {"", "rating-desc"}
ListResponses == {"ok", "unauthorized", "server_error", "network_error"}

\* The page's state as one record, handed through the functions a handler
\* calls one after the other.
Ui ==
  [token |-> token, loaded |-> loaded, landingPage |-> landingPage,
   isLoadingMovies |-> isLoadingMovies, movieSearch |-> movieSearch,
   movieSort |-> movieSort, movieSearchTimeout |-> movieSearchTimeout,
   movieRequest |-> movieRequest, movieTable |-> movieTable,
   notificationCountInterval |-> notificationCountInterval,
   intervals |-> intervals, intervalsCreated |-> intervalsCreated,
   countRequests |-> countRequests, lastCall |-> lastCall,
   inputs |-> inputs, logins |-> logins, loadFailed |-> loadFailed]

SetUi(u) ==
  /\ token' = u.token
  /\ loaded' = u.loaded
  /\ landingPage' = u.landingPage
  /\ isLoadingMovies' = u.isLoadingMovies
  /\ movieSearch' = u.movieSearch
  /\ movieSort' = u.movieSort
  /\ movieSearchTimeout' = u.movieSearchTimeout
  /\ movieRequest' = u.movieRequest
  /\ movieTable' = u.movieTable
  /\ notificationCountInterval' = u.notificationCountInterval
  /\ intervals' = u.intervals
  /\ intervalsCreated' = u.intervalsCreated
  /\ countRequests' = u.countRequests
  /\ lastCall' = u.lastCall
  /\ inputs' = u.inputs
  /\ logins' = u.logins
  /\ loadFailed' = u.loadFailed

\* function isAuthenticated() { return !!getToken(); }
isAuthenticated(u) == u.token

\* clearAuth(): localStorage.removeItem(TOKEN_KEY), removeItem(USER_KEY)
clearAuth(u) == [u EXCEPT !.token = FALSE]

\* saveAuthData(token, user)
saveAuthData(u) == [u EXCEPT !.token = TRUE]

\* showAuthModal(): landing page shown, main container hidden.
showAuthModal(u) == [u EXCEPT !.landingPage = TRUE]

\* What the latest step of an authenticatedFetch call did: the token it found,
\* what came of it, and a bit that flips with every such step.
Outcome(u, result) ==
  [tok |-> u.token, result |-> result, n |-> 1 - u.lastCall.n]

\* Mutant: authenticatedFetch sends the request without looking at the token.
TokenGuard_absent(tok) == TRUE

\* authenticatedFetch: `if (!token) { showAuthModal(); throw ... }`
TokenGuard(tok) == tok

\* authenticatedFetch up to `await fetch(url, options)`: without a token the
\* landing page is shown and the call rejects with 'Not authenticated';
\* with one the request leaves with the Authorization header.
authenticatedFetch(u) ==
  IF TokenGuard(u.token)
  THEN [u EXCEPT !.lastCall = Outcome(u, "sent")]
  ELSE [showAuthModal(u) EXCEPT !.lastCall = Outcome(u, "Not authenticated")]

\* authenticatedFetch after `await fetch(url, options)`: a 401 clears the
\* stored token, shows the landing page and throws; a network error throws.
authenticatedFetchResponse(u, r) ==
  IF r = "unauthorized"
  THEN [showAuthModal(clearAuth(u)) EXCEPT
          !.lastCall = Outcome(u, "Session expired")]
  ELSE [u EXCEPT !.lastCall = Outcome(u, r)]

\* Mutant: loadMovies starts whatever the flag says.
LoadingGuard_absent(flag) == FALSE

\* loadMovies: `if (isLoadingMovies) { return; }`
LoadingGuard(flag) == flag

\* Mutant: isLoadingMovies is left set when the loader ends.
LoadingFinally_keeps(flag) == flag

\* loadMovies: `finally { isLoadingMovies = false; }`
LoadingFinally(flag) == FALSE

\* loadMovies() up to `await authenticatedFetch(url)`: the request carries the
\* search text and the sort value read from the page.  When authenticatedFetch
\* throws, the finally block runs in the same turn.
loadMovies(u) ==
  IF LoadingGuard(u.isLoadingMovies) THEN u
  ELSE LET v == authenticatedFetch(u) IN
       IF v.lastCall.result = "sent"
       THEN [v EXCEPT !.isLoadingMovies = TRUE,
                      !.movieRequest = Append(@, [search |-> u.movieSearch,
                                                  sort |-> u.movieSort,
                                                  at |-> "fetch"])]
       ELSE [v EXCEPT !.isLoadingMovies = LoadingFinally(TRUE),
                      !.loadFailed = TRUE]

\* updateNotificationCount() up to `await authenticatedFetch(...)`; its catch
\* block logs.
updateNotificationCount(u) ==
  LET v == authenticatedFetch(u) IN
  IF v.lastCall.result = "sent" THEN [v EXCEPT !.countRequests = @ + 1] ELSE v

\* setInterval(updateNotificationCount, 30000), the id kept in
\* notificationCountInterval.
setNotificationInterval(u) ==
  [u EXCEPT !.intervalsCreated = @ + 1,
            !.intervals = @ \cup {u.intervalsCreated + 1},
            !.notificationCountInterval = u.intervalsCreated + 1]

\* showMainUI(): main container shown, updateNotificationCount(), then
\* `if (notificationCountInterval) clearInterval(...)` and setInterval.
showMainUI(u) ==
  LET v == updateNotificationCount([u EXCEPT !.landingPage = FALSE])
      w == IF v.notificationCountInterval # NoInterval
           THEN [v EXCEPT !.intervals = @ \ {v.notificationCountInterval}]
           ELSE v
  IN  setNotificationInterval(w)

\* initAuth(), the DOMContentLoaded listener of auth.js (no URL parameters).
initAuth(u) == IF ~isAuthenticated(u) THEN showAuthModal(u) ELSE showMainUI(u)

\* The DOMContentLoaded listener of app.js: `if (isAuthenticated()) { ...
\* updateNotificationCount(); ... notificationCountInterval = setInterval(...) }`
appContentLoaded(u) ==
  IF isAuthenticated(u) THEN setNotificationInterval(updateNotificationCount(u))
  ELSE u

\* DOMContentLoaded: the listeners of auth.js (initAuth) and of app.js run in
\* the order in which the page loaded the two scripts.
DOMContentLoaded(authFirst) ==
  /\ ~loaded
  /\ LET u == [Ui EXCEPT !.loaded = TRUE] IN
     SetUi(IF authFirst THEN appContentLoaded(initAuth(u))
           ELSE initAuth(appContentLoaded(u)))
  /\ UNCHANGED <<posterVars, editVars, accountVars>>

\* The input listener of #movieSearch: clearTimeout, then setTimeout(..., 300).
SearchInput(text) ==
  /\ loaded
  /\ ~landingPage
  /\ currentTab = "movies"
  /\ inputs < MaxInputs
  /\ text # movieSearch
  /\ SetUi([Ui EXCEPT !.movieSearch = text, !.movieSearchTimeout = TRUE,
                      !.inputs = @ + 1])
  /\ UNCHANGED <<posterVars, editVars, accountVars>>

\* The change listener of #movieSort: loadMovies.
SortChange(val) ==
  /\ loaded
  /\ ~landingPage
  /\ currentTab = "movies"
  /\ inputs < MaxInputs
  /\ val # movieSort
  /\ SetUi(loadMovies([Ui EXCEPT !.movieSort = val, !.inputs = @ + 1]))
  /\ UNCHANGED <<posterVars, editVars, accountVars>>

\* The debounce timer fires: () => { loadMovies(); }
SearchTimerFires ==
  /\ movieSearchTimeout
  /\ SetUi(loadMovies([Ui EXCEPT !.movieSearchTimeout = FALSE]))
  /\ UNCHANGED <<posterVars, editVars, accountVars>>

\* s without its n-th element.
Remove(s, n) == SubSeq(s, 1, n - 1) \o SubSeq(s, n + 1, Len(s))

\* The rows of a table, each named by its table and its entity id.
TableRows(table) ==
  {<<table, id>> : id \in IF table = "movieTable" THEN DOMAIN Movies
                          ELSE DOMAIN VideoGames}

\* tbody.innerHTML = '' and fresh rows: nothing of the old rows is left.
RenderRows(rows, table) == rows \ TableRows(table)

\* GET /movies/ answers the n-th loadMovies invocation under way, which
\* resumes after `await authenticatedFetch(url)`: when res.ok it goes on to
\* `await res.json()`, otherwise (and when authenticatedFetch threw) it ends
\* through the finally block.
MoviesRespond(n, r) ==
  /\ n \in 1..Len(movieRequest)
  /\ movieRequest[n].at = "fetch"
  /\ LET u == authenticatedFetchResponse(Ui, r) IN
     SetUi(IF r = "ok"
           THEN [u EXCEPT !.movieRequest[n].at = "json"]
           ELSE [u EXCEPT !.movieRequest = Remove(@, n),
                          !.isLoadingMovies = LoadingFinally(@),
                          !.loadFailed = TRUE])
  /\ UNCHANGED <<posterVars, editVars, accountVars>>

\* The body of the response has been read and the invocation resumes after
\* `await res.json()`: tbody.innerHTML = '' and one row per movie, then the
\* finally block.  The rows carry a stored poster_url, so they are displayed
\* without a provider lookup.  When reading the body fails, nothing is
\* rendered.
MoviesRender(n, parsed) ==
  /\ n \in 1..Len(movieRequest)
  /\ movieRequest[n].at = "json"
  /\ LET u == [Ui EXCEPT !.movieRequest = Remove(@, n),
                         !.isLoadingMovies = LoadingFinally(@)]
     IN  SetUi(IF parsed
               THEN [u EXCEPT !.movieTable = <<[search |-> movieRequest[n].search,
                                                sort |-> movieRequest[n].sort]>>]
               ELSE [u EXCEPT !.loadFailed = TRUE])
  /\ editing' = IF parsed THEN RenderRows(editing, "movieTable") ELSE editing
  /\ buttonsOff' = IF parsed THEN RenderRows(buttonsOff, "movieTable")
                   ELSE buttonsOff
  /\ UNCHANGED <<posterVars, accountVars, editingRowId, editPuts,
                 isLoadingVideoGames, videoGameTable, clicks, currentTab>>

\* An installed interval fires: updateNotificationCount().
IntervalTick(id) ==
  /\ id \in intervals
  /\ countRequests < MaxPolls
  /\ SetUi(updateNotificationCount(Ui))
  /\ UNCHANGED <<posterVars, editVars, accountVars>>

\* GET /notifications/count answers and updateNotificationCount resumes; its
\* catch block swallows what authenticatedFetch throws.
CountResponds(r) ==
  /\ countRequests > 0
  /\ SetUi([authenticatedFetchResponse(Ui, r) EXCEPT !.countRequests = @ - 1])
  /\ UNCHANGED <<posterVars, editVars, accountVars>>

\* login() with accepted credentials: saveAuthData, hideAuthModal,
\* showMainUI, loadMovies.
login ==
  /\ loaded
  /\ landingPage
  /\ logins < MaxLogins
  /\ SetUi(loadMovies(showMainUI(saveAuthData([Ui EXCEPT !.logins = @ + 1]))))
  /\ UNCHANGED <<posterVars, editVars, accountVars>>

\* ------------------------------------------------------- inline editing
EditTables == {"movieTable", "videoGameTable"}
TabOf(table) == IF table = "movieTable" THEN "movies" ELSE "video-games"

\* The rows of the table have been rendered.
Rendered(table) ==
  IF table = "movieTable" THEN movieTable # << >> ELSE videoGameTable

\* disableOtherRowButtons(row, tableId)
disableOtherRowButtons(off, table, id) ==
  off \cup (TableRows(table) \ {<<table, id>>})

\* enableAllRowButtons(tableId)
enableAllRowButtons(off, table) == off \ TableRows(table)

\* `if (editingRowId !== id) return;` opens saveMovieEdit, saveTVEdit and
\* saveAnimeEdit; saveVideoGameEdit has no such line.
SaveGuard(table, lock, id) == IF table = "movieTable" THEN lock = id ELSE TRUE

\* loadVideoGames() up to `await authenticatedFetch(url)`, as loadMovies; the
\* search text and sort value of the request are not followed.
loadVideoGames(u) == IF LoadingGuard(isLoadingVideoGames) THEN u
                     ELSE authenticatedFetch(u)

\* isLoadingVideoGames after loadVideoGames() has run to its first await.
LoadingVideoGamesAfter(u) ==
  IF LoadingGuard(isLoadingVideoGames) THEN isLoadingVideoGames
  ELSE IF authenticatedFetch(u).lastCall.result = "sent" THEN TRUE
  ELSE LoadingFinally(TRUE)

\* loadMovies() or loadVideoGames(), whichever fills the table.
LoadTable(table, u) ==
  /\ SetUi(IF table = "movieTable" THEN loadMovies(u) ELSE loadVideoGames(u))
  /\ isLoadingVideoGames' = IF table = "movieTable" THEN isLoadingVideoGames
                            ELSE LoadingVideoGamesAfter(u)

\* A click on a button of a row: the tab of its table is the active one, the
\* row is rendered and its buttons are not disabled.
Clickable(table, id) ==
  /\ loaded
  /\ ~landingPage
  /\ currentTab = TabOf(table)
  /\ Rendered(table)
  /\ <<table, id>> \notin buttonsOff
  /\ clicks < MaxClicks

\* enableMovieEdit / enableVideoGameEdit (enableTVEdit and enableAnimeEdit are
\* the same): a click on the Edit button of a row.
EnableEdit(table, id) ==
  /\ Clickable(table, id)
  /\ <<table, id>> \notin editing
  /\ clicks' = clicks + 1
  /\ IF editingRowId # NoRow
     THEN UNCHANGED <<editingRowId, editing, buttonsOff>>
     ELSE /\ editingRowId' = id
          /\ editing' = editing \cup {<<table, id>>}
          /\ buttonsOff' = disableOtherRowButtons(buttonsOff, table, id)
  /\ UNCHANGED <<posterVars, token, uiVars, accountVars, editPuts,
                 isLoadingVideoGames, videoGameTable, currentTab>>

enableMovieEdit(id) == EnableEdit("movieTable", id)

enableVideoGameEdit(id) == EnableEdit("videoGameTable", id)

\* saveMovieEdit / saveVideoGameEdit up to `await authenticatedFetch(PUT)`: a
\* click on the Save button of a row in edit mode.
SaveEdit(table, id) ==
  /\ Clickable(table, id)
  /\ <<table, id>> \in editing
  /\ clicks' = clicks + 1
  /\ IF SaveGuard(table, editingRowId, id)
     THEN LET u == authenticatedFetch(Ui) IN
          /\ SetUi(u)
          /\ editPuts' = IF u.lastCall.result = "sent"
                         THEN Append(editPuts, [table |-> table, id |-> id])
                         ELSE editPuts
     ELSE UNCHANGED <<token, uiVars, editPuts>>
  /\ UNCHANGED <<posterVars, accountVars, editingRowId, editing, buttonsOff,
                 isLoadingVideoGames, videoGameTable, currentTab>>

saveMovieEdit(id) == SaveEdit("movieTable", id)

saveVideoGameEdit(id) == SaveEdit("videoGameTable", id)

\* The backend answers the PUT of a save...Edit handler: when res.ok the lock
\* is released, the buttons of the table are enabled and the list is loaded
\* again; otherwise the handler ends and the row stays in edit mode.
EditPutResponds(n, r) ==
  /\ n \in 1..Len(editPuts)
  /\ editPuts' = Remove(editPuts, n)
  /\ LET u == authenticatedFetchResponse(Ui, r)
         table == editPuts[n].table
     IN  IF r = "ok"
         THEN /\ editingRowId' = NoRow
              /\ buttonsOff' = enableAllRowButtons(buttonsOff, table)
              /\ LoadTable(table, u)
         ELSE /\ SetUi(u)
              /\ UNCHANGED <<editingRowId, buttonsOff, isLoadingVideoGames>>
  /\ UNCHANGED <<posterVars, accountVars, editing, videoGameTable, clicks,
                 currentTab>>

\* cancelMovieEdit / cancelVideoGameEdit: a click on the Cancel button of a
\* row in edit mode.
CancelEdit(table) ==
  /\ \E row \in TableRows(table) \cap editing : Clickable(table, row[2])
  /\ clicks' = clicks + 1
  /\ editingRowId' = NoRow
  /\ buttonsOff' = enableAllRowButtons(buttonsOff, table)
  /\ LoadTable(table, Ui)
  /\ UNCHANGED <<posterVars, accountVars, editing, editPuts, videoGameTable,
                 currentTab>>

cancelMovieEdit == CancelEdit("movieTable")

cancelVideoGameEdit == CancelEdit("videoGameTable")

\* switchTab('movies') / switchTab('video-games'): the tab becomes the
\* current one and its list is loaded.
switchTab(tabName) ==
  /\ loaded
  /\ ~landingPage
  /\ inputs < MaxInputs
  /\ currentTab' = tabName
  /\ LoadTable(IF tabName = "movies" THEN "movieTable" ELSE "videoGameTable",
               [Ui EXCEPT !.inputs = @ + 1])
  /\ UNCHANGED <<posterVars, accountVars, editingRowId, editing, buttonsOff,
                 editPuts, videoGameTable, clicks>>

\* GET /video-games/ is answered and its body read: loadVideoGames resumes,
\* renders the rows when res.ok, and ends through its finally block.
VideoGamesLoaded(r) ==
  /\ isLoadingVideoGames
  /\ isLoadingVideoGames' = LoadingFinally(isLoadingVideoGames)
  /\ SetUi(authenticatedFetchResponse(Ui, r))
  /\ videoGameTable' = (videoGameTable \/ r = "ok")
  /\ editing' = IF r = "ok" THEN RenderRows(editing, "videoGameTable")
                ELSE editing
  /\ buttonsOff' = IF r = "ok" THEN RenderRows(buttonsOff, "videoGameTable")
                   ELSE buttonsOff
  /\ UNCHANGED <<posterVars, accountVars, editingRowId, editPuts, clicks,
                 currentTab>>

EditInit == PosterInit /\ token = TRUE /\ PageStart(TRUE)

EditNext ==
  \/ \E authFirst \in BOOLEAN : DOMContentLoaded(authFirst)
  \/ \E tabName \in {"movies", "video-games"} : switchTab(tabName)
  \/ \E val \in SortValues : SortChange(val)
  \/ \E n \in 1..MaxLoads, r \in ListResponses : MoviesRespond(n, r)
  \/ \E n \in 1..MaxLoads, parsed \in BOOLEAN : MoviesRender(n, parsed)
  \/ \E r \in ListResponses : VideoGamesLoaded(r)
  \/ \E id \in DOMAIN Movies : enableMovieEdit(id)
  \/ \E id \in DOMAIN VideoGames : enableVideoGameEdit(id)
  \/ \E id \in DOMAIN Movies : saveMovieEdit(id)
  \/ \E id \in DOMAIN VideoGames : saveVideoGameEdit(id)
  \/ \E n \in 1..MaxClicks, r \in ListResponses : EditPutResponds(n, r)
  \/ cancelMovieEdit
  \/ cancelVideoGameEdit

EditSpec == EditInit /\ [][EditNext]_vars

\* -------------------------------------------------- account deactivation
\* location.reload() after clearAuth(): the page starts again without a
\* token, its script state is new and the answers to the old page's requests
\* are never handled; the top-level loadMovies() shows the landing page.
FreshPage(u) ==
  [token |-> FALSE, loaded |-> FALSE, landingPage |-> TRUE,
   isLoadingMovies |-> FALSE, movieSearch |-> "", movieSort |-> "",
   movieSearchTimeout |-> FALSE, movieRequest |-> << >>, movieTable |-> << >>,
   notificationCountInterval |-> NoInterval, intervals |-> {},
   intervalsCreated |-> 0, countRequests |-> 0,
   lastCall |-> [tok |-> FALSE, result |-> "Not authenticated", n |-> 1],
   inputs |-> u.inputs, logins |-> u.logins, loadFailed |-> TRUE]

\* window.deactivateAccount up to `await authenticatedFetch(POST)`: the form
\* is submitted and the user answers the confirm() dialog.  When
\* authenticatedFetch throws, the catch block shows an error.
deactivateAccount(confirmed) ==
  /\ loaded
  /\ ~landingPage
  /\ deactivation = "none"
  /\ attempts < MaxAttempts
  /\ attempts' = attempts + 1
  /\ IF confirmed
     THEN LET u == authenticatedFetch(Ui) IN
          /\ SetUi(u)
          /\ deactivation' = IF u.lastCall.result = "sent" THEN "sent"
                             ELSE "none"
     ELSE UNCHANGED <<token, uiVars, deactivation>>
  /\ UNCHANGED <<posterVars, editVars>>

\* POST /account/deactivate is answered: when response.ok the handler goes on
\* to `await response.json()`; otherwise an error is shown.
DeactivateResponds(r) ==
  /\ deactivation = "sent"
  /\ SetUi(authenticatedFetchResponse(Ui, r))
  /\ deactivation' = IF r = "ok" THEN "body" ELSE "none"
  /\ UNCHANGED <<posterVars, editVars, attempts>>

\* The body of the ok response has been read: alert(...), then logout(),
\* which asks confirm('Are you sure you want to logout?') and on yes calls
\* clearAuth() and location.reload().  When the body cannot be read the catch
\* block shows an error.
DeactivateBody(parsed, logoutConfirmed) ==
  /\ deactivation = "body"
  /\ IF parsed /\ logoutConfirmed
     THEN /\ SetUi(FreshPage(Ui))
          /\ deactivation' = "loggedOut"
          /\ editingRowId' = NoRow
          /\ editing' = {}
          /\ buttonsOff' = {}
          /\ editPuts' = << >>
          /\ isLoadingVideoGames' = FALSE
          /\ videoGameTable' = FALSE
          /\ currentTab' = "movies"
          /\ UNCHANGED clicks
     ELSE /\ deactivation' = IF parsed THEN "stayed" ELSE "unread"
          /\ UNCHANGED <<token, uiVars, editVars>>
  /\ UNCHANGED <<posterVars, attempts>>

AccountInit == PosterInit /\ token = TRUE /\ PageStart(TRUE)

AccountNext ==
  \/ \E authFirst \in BOOLEAN : DOMContentLoaded(authFirst)
  \/ \E n \in 1..MaxLoads, r \in ListResponses : MoviesRespond(n, r)
  \/ \E n \in 1..MaxLoads, parsed \in BOOLEAN : MoviesRender(n, parsed)
  \/ \E id \in 1..(2 + MaxLogins) : IntervalTick(id)
  \/ \E r \in ListResponses \ {"server_error"} : CountResponds(r)
  \/ login
  \/ \E confirmed \in BOOLEAN : deactivateAccount(confirmed)
  \/ \E r \in ListResponses : DeactivateResponds(r)
  \/ \E parsed, logoutConfirmed \in BOOLEAN :
       DeactivateBody(parsed, logoutConfirmed)

AccountSpec == AccountInit /\ [][AccountNext]_vars

UiInit == PosterInit /\ \E tok \in BOOLEAN : token = tok /\ PageStart(tok)

UiNext ==
  \/ \E authFirst \in BOOLEAN : DOMContentLoaded(authFirst)
  \/ \E text \in SearchTexts : SearchInput(text)
  \/ \E val \in SortValues : SortChange(val)
  \/ SearchTimerFires
  \/ \E n \in 1..MaxLoads, r \in ListResponses : MoviesRespond(n, r)
  \/ \E n \in 1..MaxLoads, parsed \in BOOLEAN : MoviesRender(n, parsed)
  \/ \E id \in 1..(2 + MaxLogins) : IntervalTick(id)
  \/ \E r \in ListResponses \ {"server_error"} : CountResponds(r)
  \/ login

UiSpec == UiInit /\ [][UiNext]_vars

\* ============================================================ properties
\* The calls made for a key during its w-th coalescing window.
WindowIn(cs, key, w) ==
  {i \in 1..Len(cs) : cs[i].key = key /\ cs[i].win = w}
InWindow(key, w) == WindowIn(calls, key, w)
WindowOf(i) == InWindow(calls[i].key, calls[i].win)

RECURSIVE TotalIn(_, _, _)
TotalIn(cs, S, field) ==
  IF S = {} THEN 0
  ELSE LET i == CHOOSE x \in S : TRUE
       IN  cs[i][field] + TotalIn(cs, S \ {i}, field)
Total(S, field) == TotalIn(calls, S, field)

\* Provider lookups that have been started and not yet answered.
PendingLookups(key) ==
  {i \in CallIdx : calls[i].key = key
                   /\ (calls[i].pc = "awaitFetch" \/ calls[i].iife = "awaitFetch")}

Failures == {"not_found", "failed", "transport_error"}

\* The artifact a call ended with (Null: none).
ResultOf(c) ==
  IF c.fetched = 1 THEN (IF c.cause = "found" THEN c.url ELSE Null)
  ELSE IF c.got \in Urls THEN c.got ELSE Null

\* The call was handed the result of its window.
Delivered(c) ==
  IF c.fetched = 1 THEN c.cause # "none" ELSE c.got # Undefined

\* ------------------------------------------------------------------- C1
\* C1: for every key at most one provider lookup is pending at any instant,
\* and a call issued while the lookup of its key is pending starts no provider
\* call of its own: its window counts exactly one provider call.
C1_SingleLookup ==
  /\ \A k \in Keys : Cardinality(PendingLookups(k)) <= 1
  /\ \A j \in CallIdx :
       calls[j].phase = "InFlight" =>
         /\ calls[j].fetched = 0
         /\ Total(WindowOf(j), "fetched") = 1

\* Two calls of one key, the second issued before the first lookup was
\* answered, and the lookup has been answered since.
C1_Witness ==
  \E i, j \in CallIdx :
    /\ i < j /\ j \in WindowOf(i)
    /\ calls[j].phase = "InFlight"
    /\ calls[i].fetched = 1 /\ calls[i].cause # "none"

\* ------------------------------------------------------------------- C2
\* C2 (as claimed): a caller that requested a key while its lookup was in
\* flight ends with the result of the caller that started the lookup; on
\* Found(url) it is given that url and displays it.
C2_SameResult ==
  \A j \in CallIdx : \A o \in WindowOf(j) :
    ( /\ calls[j].phase = "InFlight"
      /\ calls[j].pc = "done"
      /\ calls[o].role = "originator"
      /\ calls[o].pc = "done" )
    => /\ ResultOf(calls[j]) = ResultOf(calls[o])
       /\ (ResultOf(calls[o]) # Null => calls[j].shown = 1)

C4_NoPersistOnFailure ==
  \A o \in CallIdx :
    (calls[o].fetched = 1 /\ calls[o].cause \in Failures) =>
      /\ Total(WindowOf(o), "saved") = 0
      /\ Total(WindowOf(o), "puts") = 0
      /\ Total(WindowOf(o), "shown") = 0

\* A window whose lookup failed, closed by the timer, with two callers.
C4_Witness ==
  \E o, j \in CallIdx :
    /\ o # j /\ j \in WindowOf(o)
    /\ calls[o].fetched = 1 /\ calls[o].cause \in Failures
    /\ calls[j].pc = "done"
    /\ evictions[calls[o].key] >= calls[o].win

\* ------------------------------------------------------------------- C5
\* (kind, title, year) of a call; a video game is requested without a year.
TupleOf(c) ==
  CASE c.fn = "fetchMoviePoster" -> <<c.fn, Movies[c.id].title, Movies[c.id].year>>
    [] c.fn = "fetchTVPoster" -> <<c.fn, TVShows[c.id].title, TVShows[c.id].year>>
    [] c.fn = "fetchAnimePoster" -> <<c.fn, Anime[c.id].title, Anime[c.id].year>>
    [] c.fn = "fetchVideoGameMetadata" -> <<c.fn, VideoGames[c.id].title>>

EntryOf(key) ==
  <<key \in posterFetchInProgress,
    IF key \in DOMAIN posterFetchQueue THEN posterFetchQueue[key] ELSE NoPromise>>

\* C5 (as claimed): different (kind, title, year) tuples get different keys
\* and never share a window: each has its own provider call and, on Found, its
\* own persistence call; and a step changes the in-flight entry of at most one
\* key.
C5_IndependentKeys ==
  [][ /\ Cardinality({k \in Keys : EntryOf(k)' # EntryOf(k)}) <= 1
      /\ \A i, j \in 1..Len(calls') :
           TupleOf(calls'[i]) # TupleOf(calls'[j]) =>
             /\ calls'[i].key # calls'[j].key
             /\ (calls'[i].phase = "Absent" => calls'[i].fetched = 1)
             /\ (calls'[i].fetched = 1 /\ calls'[i].cause = "found"
                   => calls'[i].saved = 1) ]_vars

\* ------------------------------------------------------------------- C6
\* C6: once the timer has evicted a key nothing of it is kept in memory (no
\* in-progress mark, no stored promise), and the next call for the key makes
\* the provider call itself, in a new window, without being handed anything
\* of the previous one.
C6_WindowReopens ==
  [][ /\ \A k \in Keys :
           k \notin posterFetchInProgress' => k \notin DOMAIN posterFetchQueue'
      /\ (Len(calls') > Len(calls) =>
            LET c == calls'[Len(calls')] IN
            (evictions[c.key] > 0 /\ c.key \notin posterFetchInProgress) =>
              /\ c.role = "originator" /\ c.fetched = 1
              /\ c.win = evictions[c.key] + 1
              /\ c.awaits \in {NoPromise, Len(calls')}
              /\ WindowIn(calls', c.key, c.win) = {Len(calls')}) ]_vars

\* Two windows of one key whose provider calls ended differently.
C6_Witness ==
  \E i, j \in CallIdx :
    /\ calls[i].key = calls[j].key
    /\ calls[i].win = 1 /\ calls[j].win = 2
    /\ calls[i].fetched = 1 /\ calls[j].fetched = 1
    /\ calls[i].cause \in Failures /\ calls[j].cause = "found"

\* ------------------------------------------------------------------- C7
\* C7: a key leaves posterFetchInProgress only in the step of its eviction
\* timer, never in the step that settles the lookup; a call made after the
\* lookup settled and before the eviction starts no provider call; every
\* window counts exactly one provider call.
C7_GracePeriod ==
  [][ /\ \A k \in Keys :
           (k \in posterFetchInProgress /\ k \notin posterFetchInProgress') =>
             /\ timers # << >> /\ Head(timers) = k
             /\ timers' = Tail(timers)
             /\ calls' = calls
      /\ \A j \in 1..Len(calls') :
           /\ (calls'[j].phase = "Resolved" => calls'[j].fetched = 0)
           /\ TotalIn(calls', WindowIn(calls', calls'[j].key, calls'[j].win),
                      "fetched") = 1 ]_vars

\* A call made during the grace period of a window that has since been
\* closed: the window counts one provider call.
C7_Witness ==
  \E j \in CallIdx :
    /\ calls[j].phase = "Resolved" /\ calls[j].pc = "done"
    /\ evictions[calls[j].key] >= calls[j].win
    /\ Cardinality(WindowOf(j)) = 2
    /\ Total(WindowOf(j), "fetched") = 1

\* ------------------------------------------------------------------- C8
\* C8 (as claimed): in a window that has been closed, every caller,
\* originator or joiner, was handed the window's result exactly once.
C8_EveryCallerNotified ==
  \A j \in CallIdx :
    (calls[j].pc = "done" /\ evictions[calls[j].key] >= calls[j].win)
      => Delivered(calls[j])

\* ------------------------------------------------------------------- C9
\* C9: the promise a fetch function returns is never rejected, whatever the
\* provider and the backend answer; a finished call has settled normally.
C9_NeverRejects ==
  \A i \in CallIdx :
    /\ calls[i].settled # "rejected"
    /\ calls[i].prom # "rejected"
    /\ (calls[i].pc = "done" => calls[i].settled = "fulfilled")

\* A lookup that threw, with a second caller of the same window; both calls
\* have settled normally.
C9_Witness ==
  \E i, j \in CallIdx :
    /\ i # j /\ j \in WindowOf(i)
    /\ calls[i].cause = "transport_error"
    /\ calls[i].settled = "fulfilled" /\ calls[j].settled = "fulfilled"

\* ------------------------------------------------------------------ C10
PhaseSteps ==
  {<<"Absent", "InFlight">>, <<"InFlight", "Resolved">>, <<"Resolved", "Absent">>}

InTable(key) == key \in posterFetchInProgress \/ key \in DOMAIN posterFetchQueue

\* C11: every key that enters the in-flight table leaves it in the end,
\* whatever the outcome, when the requests are answered and the timer fires:
\* InTable(k) ~> ~InTable(k), which is to say that each key is out of the
\* table again and again.
C11_EventuallyEvicted ==
  \A k \in Keys : []<>(~InTable(k))

\* A key that has left the table after a Found lookup whose PUT got a 401.
C11_Witness ==
  \E i \in CallIdx :
    /\ calls[i].cause = "found" /\ calls[i].puts = 1 /\ ~token
    /\ evictions[calls[i].key] >= calls[i].win
    /\ ~InTable(calls[i].key)

\* ------------------------------------------------------------------ C12
\* The callers registered on the promise stored for a key and not yet resumed.
RegisteredWaiters(key) ==
  {j \in CallIdx : /\ calls[j].key = key
                   /\ calls[j].role \in {"waiter", "duplicate"}
                   /\ calls[j].pc = "awaitPromise"}

\* C12: a step that removes a key from posterFetchInProgress or from
\* posterFetchQueue is taken only when no caller registered on the key's
\* promise is still waiting: every joiner of the window that awaited the
\* promise has been handed its value.
C12_NoEvictionBeforeWaiters ==
  [][ \A k \in Keys :
        ( \/ (k \in posterFetchInProgress /\ k \notin posterFetchInProgress')
          \/ (k \in DOMAIN posterFetchQueue /\ k \notin DOMAIN posterFetchQueue') )
        => /\ RegisteredWaiters(k) = {}
           /\ \A j \in InWindow(k, evictions[k] + 1) :
                calls[j].role \in {"waiter", "duplicate"}
                  => calls[j].got # Undefined ]_vars

\* A closed video-game window whose joiner registered while the lookup was
\* in flight and was handed the cover art.
C12_Witness ==
  \E j \in CallIdx :
    /\ calls[j].fn = "fetchVideoGameMetadata"
    /\ calls[j].role = "waiter" /\ calls[j].phase = "InFlight"
    /\ calls[j].got \in Urls
    /\ evictions[calls[j].key] >= calls[j].win

\* ------------------------------------------------------------------ C13
SaveReturning == {"awaitPut", "afterSave"}

\* C13: the step in which a save function returns has the same effect whatever
\* became of the PUT (answered, rejected with 401, network error, not sent for
\* want of a token): the originator's row shows the poster, the shared promise
\* holds the Found result, the call settles normally and (poster functions)
\* the eviction timer is scheduled; and a joiner handed the value of a Found
\* window is handed the originator's url.
C13_PersistFailureHarmless ==
  [][ \A i \in CallIdx :
        LET c == calls[i]
            d == calls'[i]
        IN  /\ (c.fn \in PosterFns /\ c.pc \in SaveReturning /\ d.pc # c.pc) =>
                 /\ d.pc = "done" /\ d.settled = "fulfilled"
                 /\ d.shown = 1 /\ poster'[<<c.fn, c.id>>] = c.url
                 /\ c.key \in DOMAIN posterFetchQueue'
                 /\ calls'[posterFetchQueue'[c.key]].prom = "fulfilled"
                 /\ calls'[posterFetchQueue'[c.key]].pval = c.url
                 /\ \E n \in 1..Len(timers') : timers'[n] = c.key
            /\ (c.iife \in SaveReturning /\ d.iife # c.iife) =>
                 /\ d.iife = "settled" /\ d.prom = "fulfilled" /\ d.pval = c.url
                 /\ d.shown = 1 /\ poster'[<<c.fn, c.id>>] = c.url
                 /\ posterFetchQueue'[c.key] = i
            /\ (c.fn \notin PosterFns /\ c.pc \in SaveReturning /\ d.pc # c.pc) =>
                 /\ d.pc = "done" /\ d.settled = "fulfilled"
                 /\ poster'[<<c.fn, c.id>>] = c.got
            /\ (c.got = Undefined /\ d.got # Undefined
                  /\ calls[c.awaits].cause = "found") =>
                 d.got = calls[c.awaits].url
            /\ d.settled # "rejected" ]_vars

\* The only PUT of the run was answered 401 (the token is gone); the
\* originator's row shows the poster and a joiner was handed the same url.
C13_Witness ==
  \E i, j \in CallIdx :
    /\ i # j /\ j \in WindowOf(i)
    /\ ~token /\ calls[i].puts = 1 /\ calls[j].puts = 0
    /\ calls[i].pc = "done" /\ calls[i].settled = "fulfilled"
    /\ poster[<<calls[i].fn, calls[i].id>>] = calls[i].url
    /\ calls[j].got = calls[i].url /\ calls[j].pc = "done"
    /\ TimerPending(calls[i].key)

\* ------------------------------------------------------------------ C14
\* C14: a call made after the lookup of its key has resolved and before the
\* eviction makes no provider call and ends with the result of the window's
\* originator: on Found it is handed the originator's url and its row shows
\* it; otherwise it ends without an artifact and displays nothing.
C14_LateJoiner ==
  \A j \in CallIdx : \A o \in WindowOf(j) :
    (calls[j].phase = "Resolved" /\ calls[j].pc = "done" /\ calls[o].fetched = 1)
    => /\ calls[j].fetched = 0
       /\ calls[o].cause # "none"
       /\ IF calls[o].cause = "found"
          THEN /\ calls[j].got = calls[o].url
               /\ calls[j].shown = 1
               /\ poster[<<calls[j].fn, calls[j].id>>] = calls[o].url
          ELSE /\ ResultOf(calls[j]) = Null
               /\ calls[j].shown = 0

\* A late joiner of a Found window, for another row than the originator's.
C14_Witness ==
  \E j \in CallIdx : \E o \in WindowOf(j) :
    /\ calls[j].phase = "Resolved" /\ calls[j].pc = "done"
    /\ calls[o].fetched = 1 /\ calls[o].cause = "found"
    /\ calls[o].id # calls[j].id
    /\ poster[<<calls[j].fn, calls[j].id>>] = calls[o].url

\* ------------------------------------------------------------------ C15
KeyCalls(cs, key) == {i \in 1..Len(cs) : cs[i].key = key}

\* C15: the number of provider calls made for a key grows only in a step in
\* which a caller calls a fetch function, by one, and only when the key is
\* out of the table with no lookup pending, no timer pending and every
\* earlier window of the key closed by its eviction; in particular nothing
\* that follows a NotFound or Failed answer (return, catch, finally, the
\* timer callback) starts a provider call.
C15_NoRetry ==
  [][ \A k \in Keys :
        LET before == TotalIn(calls, KeyCalls(calls, k), "fetched")
            after == TotalIn(calls', KeyCalls(calls', k), "fetched")
        IN  after # before =>
              /\ after = before + 1
              /\ Len(calls') = Len(calls) + 1
              /\ calls'[Len(calls')].key = k
              /\ calls'[Len(calls')].fetched = 1
              /\ Phase(k) = "Absent"
              /\ ~TimerPending(k)
              /\ PendingLookups(k) = {}
              /\ \A i \in KeyCalls(calls, k) : evictions[k] >= calls[i].win ]_vars

\* A key whose lookup failed in its first window and again in its second.
C15_Witness ==
  \E i, j \in CallIdx :
    /\ calls[i].key = calls[j].key
    /\ calls[i].win = 1 /\ calls[j].win = 2
    /\ calls[i].cause \in Failures /\ calls[j].cause \in Failures
    /\ Total(KeyCalls(calls, calls[i].key), "fetched") = 2


\* The user has stopped and nothing is pending: no debounce timer, no list
\* request in flight.
Quiescent ==
  /\ loaded
  /\ ~movieSearchTimeout
  /\ movieRequest = << >>
  /\ ~isLoadingMovies

\* C16: once the user has stopped typing and choosing, every pending list
\* response has arrived and no load failed, the rendered movie table is the
\* one loaded with the final search text and the final sort value.
C16_TableReflectsLastInput ==
  (Quiescent /\ inputs > 0 /\ token /\ ~landingPage /\ ~loadFailed)
    => movieTable = <<[search |-> movieSearch, sort |-> movieSort]>>


\* C18: at most one notification polling interval is active at any time, and
\* it is the one notificationCountInterval names.
C18_SingleInterval ==
  /\ Cardinality(intervals) <= 1
  /\ intervals # {} => intervals = {notificationCountInterval}


\* Requests sent by authenticatedFetch that have not been answered yet.
PendingRequests ==
  Cardinality({n \in 1..Len(movieRequest) : movieRequest[n].at = "fetch"})
    + countRequests

\* A step in which an authenticatedFetch call came to the given outcome.
CallOutcome(result) == lastCall' # lastCall /\ lastCall'.result = result

\* C17: a call that receives a 401 clears the stored token, shows the login
\* UI and rejects (a list load renders nothing); a call made without a token
\* rejects with 'Not authenticated', shows the login UI and sends nothing;
\* a request leaves only when a token is stored, which goes into its
\* Authorization header; and only a login stores a token again.
C17_Unauthorized ==
  [][ /\ CallOutcome("Session expired") =>
           /\ ~token' /\ landingPage'
           /\ movieRequest # movieRequest' =>
                movieTable' = movieTable /\ loadFailed' /\ ~isLoadingMovies'
      /\ CallOutcome("Not authenticated") =>
           /\ ~lastCall'.tok /\ ~token' /\ landingPage'
           /\ PendingRequests' <= PendingRequests
      /\ PendingRequests' > PendingRequests =>
           token' /\ lastCall'.tok /\ lastCall'.result = "sent"
      /\ (~token /\ token') => logins' = logins + 1
    ]_vars

\* After a login a 401 has cleared the token again and a later call has been
\* rejected with 'Not authenticated'.
C17_Witness ==
  /\ logins > 0
  /\ ~token
  /\ lastCall.result = "Not authenticated"
  /\ PendingRequests = 0


\* C19: the synchronous run of a fetch function that finds no in-progress
\* entry for its key ends with the entry set, and a provider call is started
\* only by such a run; so whenever a caller is suspended on its provider call
\* the mark of its key is visible to every other call.
C19_MarkBeforeYield ==
  [][ /\ Len(calls') = Len(calls) + 1 =>
           LET c == calls'[Len(calls')] IN
           /\ c.fetched = 1 =>
                c.key \notin posterFetchInProgress
                  /\ c.key \in posterFetchInProgress'
           /\ c.key \notin posterFetchInProgress =>
                c.fetched = 1 /\ c.key \in posterFetchInProgress'
      /\ \A n \in 1..Len(calls') :
           (calls'[n].pc = "awaitFetch" \/ calls'[n].iife = "awaitFetch")
             => calls'[n].key \in posterFetchInProgress'
    ]_vars

\* A second call of a key has run while the first is still suspended on its
\* provider call, and started none.
C19_Witness ==
  \E i, j \in CallIdx :
    /\ i < j
    /\ calls[j].key = calls[i].key
    /\ i \in PendingLookups(calls[i].key)
    /\ calls[j].fetched = 0


\* C20: a caller that was handed a Found result by the shared promise of its
\* window was handed it after the originator's save call had returned: the
\* originator has called its save function once and is neither waiting for
\* the provider nor inside the save.
C20_PersistBeforeObservable ==
  \A j \in CallIdx : \A o \in WindowOf(j) :
    (o # j /\ calls[o].fetched = 1 /\ calls[j].got \in Urls)
    => /\ calls[o].saved = 1
       /\ calls[o].pc \notin SaveReturning \cup {"awaitFetch"}
       /\ calls[o].iife \notin SaveReturning \cup {"awaitFetch"}
       /\ calls[j].got = calls[o].url

\* A joiner that registered while the lookup was pending has been handed the
\* cover art, and the originator's PUT had been sent and answered.
C20_Witness ==
  \E j \in CallIdx : \E o \in WindowOf(j) :
    /\ o # j /\ calls[o].fetched = 1 /\ calls[o].puts = 1
    /\ calls[j].phase = "InFlight"
    /\ calls[j].got = calls[o].url /\ calls[j].got \in Urls
    /\ calls[j].pc # "done"


\* ------------------------------------------------------------------ C21
VideoGameKeys ==
  {videoGameCacheKey(VideoGames[id].title) : id \in DOMAIN VideoGames}

\* C21: every key with a promise in posterFetchQueue is in
\* posterFetchInProgress, for video-game keys the two hold the same keys, and
\* no fetchVideoGameMetadata call that passed the in-progress check found a
\* promise at its second lookup.
C21_QueueWithinInProgress ==
  /\ DOMAIN posterFetchQueue \subseteq posterFetchInProgress
  /\ \A k \in VideoGameKeys :
       k \in posterFetchInProgress <=> k \in DOMAIN posterFetchQueue
  /\ \A i \in CallIdx : calls[i].role # "duplicate"

\* A fetchVideoGameMetadata call has passed both lookups in the second window
\* of its key, after the first window's entry was evicted.
C21_Witness ==
  \E i \in CallIdx :
    /\ calls[i].fn = "fetchVideoGameMetadata"
    /\ calls[i].win = 2
    /\ calls[i].role = "originator"
    /\ calls[i].key \in DOMAIN posterFetchQueue


\* ------------------------------------------------------------------ C22
\* A call that has returned without having done anything.
ReturnedAtOnce(c) ==
  /\ c.pc = "done" /\ c.settled = "fulfilled"
  /\ c.fetched = 0 /\ c.saved = 0 /\ c.puts = 0 /\ c.shown = 0
  /\ c.awaits = NoPromise /\ c.got = Undefined

HasCoverArt(c) ==
  /\ c.fn = "fetchVideoGameMetadata"
  /\ \/ c.fetched = 1 /\ c.cause = "found"
     \/ c.fetched = 0 /\ c.got \in Urls

\* C23 (as stated): in a finished Found window of a video-game key every
\* caller has sent exactly one PUT, so the PUTs of the window are as many as
\* its callers, and no entity id has been written by two of them.
C23_OnePutPerCaller ==
  \A i \in CallIdx :
    (HasCoverArt(calls[i]) /\ \A j \in WindowOf(i) : calls[j].pc = "done")
    => /\ calls[i].puts = 1
       /\ Total(WindowOf(i), "puts") = Cardinality(WindowOf(i))
       /\ \A j \in WindowOf(i) \ {i} : calls[j].id # calls[i].id

\* C23 (amended): a fetchVideoGameMetadata caller invokes
\* saveVideoGameMetadata at most once, for its own row, and exactly once when
\* it ends with cover art, whether it made the lookup or was handed the
\* result; each invocation sends one PUT when a token is stored and none
\* otherwise.
C23_OneSavePerCaller ==
  [][ \A i \in 1..Len(calls') :
        LET d == calls'[i] IN
        d.fn = "fetchVideoGameMetadata" =>
          /\ d.saved <= 1 /\ d.puts <= d.saved
          /\ d.saved = 1 => HasCoverArt(d)
          /\ (HasCoverArt(d) /\ d.pc = "done") => d.saved = 1
          /\ (i <= Len(calls) /\ d.saved > calls[i].saved)
               => (d.puts > calls[i].puts <=> token)
    ]_vars

\* Two callers of one Found window, for different rows, have both sent their
\* PUT and returned.
C23_Witness ==
  \E i, j \in CallIdx :
    /\ i # j /\ j \in WindowOf(i)
    /\ calls[i].fn = "fetchVideoGameMetadata"
    /\ calls[i].id # calls[j].id
    /\ calls[i].fetched = 1 /\ calls[i].puts = 1 /\ calls[i].pc = "done"
    /\ calls[j].got \in Urls /\ calls[j].puts = 1 /\ calls[j].pc = "done"


\* ------------------------------------------------------------------ C24
\* The pending timers of a key.
TimersOf(ts, key) == {n \in 1..Len(ts) : ts[n] = key}

\* C24: a key never has two eviction timers pending; a timer is scheduled
\* only in the step in which the originator of the key's current window
\* ends; a window is opened only when no timer of its key is pending; and
\* when a timer fires, every call that made a provider call for its key has
\* ended and belongs to the window the timer closes or an earlier one.
C24_OneTimerPerWindow ==
  [][ /\ \A k \in Keys : Cardinality(TimersOf(timers', k)) <= 1
      /\ Len(timers') > Len(timers) =>
           \E i \in CallIdx :
             /\ calls[i].role = "originator"
             /\ calls[i].pc # "done" /\ calls'[i].pc = "done"
             /\ calls[i].win = evictions[calls[i].key] + 1
             /\ timers' = Append(timers, calls[i].key)
      /\ Len(calls') = Len(calls) + 1 =>
           LET c == calls'[Len(calls')] IN
           c.fetched = 1 => TimersOf(timers, c.key) = {}
      /\ Len(timers') < Len(timers) =>
           \A i \in CallIdx :
             (calls[i].key = Head(timers) /\ calls[i].fetched = 1)
             => calls[i].pc = "done" /\ calls[i].win <= evictions'[calls[i].key]
    ]_vars

\* The originator of the second window of a key has ended and its timer is
\* pending.
C24_Witness ==
  \E i \in CallIdx :
    /\ calls[i].win = 2 /\ calls[i].role = "originator" /\ calls[i].pc = "done"
    /\ TimersOf(timers, calls[i].key) # {}


\* ------------------------------------------------------------------ C25
\* A step in which loadMovies is called: a change of the sort selector, the
\* debounce timer firing, or a login.
LoadCalled ==
  \/ movieSort' # movieSort
  \/ movieSearchTimeout /\ ~movieSearchTimeout'
  \/ logins' # logins

\* C25: at most one loadMovies invocation has a request outstanding or a
\* response being read; a loadMovies call made while the loader is running
\* sends nothing and renders nothing; and the table is rendered only from
\* the single invocation under way, which ends with it.
C25_OneListLoad ==
  [][ /\ Len(movieRequest') <= 1
      /\ movieRequest' # << >> => isLoadingMovies'
      /\ (LoadCalled /\ isLoadingMovies) =>
           /\ movieRequest' = movieRequest
           /\ movieTable' = movieTable
           /\ isLoadingMovies'
      /\ movieTable' # movieTable =>
           /\ Len(movieRequest) = 1 /\ movieRequest' = << >>
           /\ movieTable' = <<[search |-> movieRequest[1].search,
                               sort |-> movieRequest[1].sort]>>
    ]_vars

\* The sort selector was changed while a list request was in flight, and the
\* request in flight is still the earlier one.
C25_Witness ==
  /\ inputs > 0
  /\ isLoadingMovies
  /\ Len(movieRequest) = 1
  /\ movieRequest[1].sort # movieSort


\* ------------------------------------------------------------------ C26
\* C26: whenever the event loop has control, isLoadingMovies is true exactly
\* when a loadMovies invocation is under way (waiting for its response or
\* for the response body); an invocation that ends by a rejected
\* authenticatedFetch, a non-ok response or an unreadable body leaves the
\* flag false; and a loadMovies call made with the flag false and a token
\* stored starts a load.
C26_LoadingFlag ==
  [][ /\ isLoadingMovies' <=> movieRequest' # << >>
      /\ (loadFailed' /\ Len(movieRequest') < Len(movieRequest))
           => ~isLoadingMovies'
      /\ (LoadCalled /\ ~isLoadingMovies /\ token') =>
           /\ Len(movieRequest') = 1
           /\ movieRequest'[1] =
                [search |-> movieSearch', sort |-> movieSort', at |-> "fetch"]
    ]_vars

\* A load has failed and a later load is under way.
C26_Witness ==
  /\ loadFailed
  /\ inputs > 0
  /\ isLoadingMovies
  /\ Len(movieRequest) = 1
  /\ movieRequest[1].at = "fetch"


\* ------------------------------------------------------------------ C27
\* What authenticatedFetch leaves behind when a PUT was not answered ok.
PutFailures == {"server_error", "network_error", "Session expired"}

\* C27: at most one row shows the edit controls; while editingRowId is
\* non-null no row enters edit mode and the lock does not pass to another id;
\* a save handler sends its PUT only for the id that holds the lock; and the
\* lock returns to null only in a click on Cancel or when the PUT of a save
\* handler is answered ok.
C27_SingleEditLock ==
  [][ /\ Cardinality(editing') <= 1
      /\ editingRowId # NoRow =>
           /\ editing' \subseteq editing
           /\ editingRowId' \in {editingRowId, NoRow}
      /\ Len(editPuts') > Len(editPuts) =>
           editPuts'[Len(editPuts')].id = editingRowId
      /\ (editingRowId # NoRow /\ editingRowId' = NoRow) =>
           clicks' = clicks + 1 \/ Len(editPuts') < Len(editPuts)
      /\ (Len(editPuts') < Len(editPuts) /\ lastCall'.result \in PutFailures)
           => editingRowId' = editingRowId
    ]_vars


\* ------------------------------------------------------------------ C28
\* C28: whenever editingRowId is non-null, a rendered row with that id shows
\* its Save and Cancel buttons and they are not disabled.
C28_EditCanEnd ==
  editingRowId # NoRow =>
    \E table \in EditTables :
      /\ Rendered(table)
      /\ <<table, editingRowId>> \in editing
      /\ <<table, editingRowId>> \notin buttonsOff


\* ------------------------------------------------------------------ C29
\* C29: from the ok answer to POST /account/deactivate until the handler has
\* ended no authenticated request is sent, and when the handler ends the
\* stored token is cleared, whatever the user answers in the dialogs.
C29_LoggedOutAfterDeactivation ==
  [][ deactivation = "body" =>
        /\ PendingRequests' <= PendingRequests
        /\ deactivation' # "body" => ~token'
    ]_vars

====
